---- MODULE Spec2Model ----
(***************************************************************************)
(* The chat endpoint of src/src/app/api/chat/route.ts: the POST handler,   *)
(* its process-local rate limiter and the rows it writes to the store.     *)
(*                                                                         *)
(* JavaScript runs a handler to completion between two awaits, so one      *)
(* action of the model is the code between one await and the next one.     *)
(* Several requests are in flight at once, one per slot of Slots.          *)
(***************************************************************************)
EXTENDS Integers, Sequences, FiniteSets, TLC

\* ------------------------------------------------------------------------
\* Program constants (route.ts lines 14-17) and the bounds of the model.
\* ------------------------------------------------------------------------
RATE_LIMIT_WINDOW_MS == 60000
RATE_LIMIT_MAX_REQUESTS == 20
MAX_GUEST_MESSAGES == 12
MAX_AUTH_MESSAGES == 40
TITLE_MAX == 80

\* Histories are submitted with up to MaxOver messages more than each cap.
MaxOver == 1
\* The clock stops at MaxTime (milliseconds since the first request).
MaxTime == 60002
\* Requests started in one behaviour of SpecRate, beyond the ceiling R.
MaxExtraRequests == 2
\* Largest token count a provider reports in SpecUsage.
\* The POSTs one page issues.
MaxSends == 3
MaxTokens == 5

NULL == "<null>"
Min(a, b) == IF a < b THEN a ELSE b
Max(a, b) == IF a > b THEN a ELSE b

\* A nullable number: <<>> is null, <<n>> is n.
None == <<>>
Some(n) == <<n>>

\* JavaScript truthiness of a nullable string and of a nullable number.
Truthy(s) == s # NULL /\ s # ""
TruthyNum(v) == v # None /\ v[1] # 0

\* a ?? b on nullable numbers
Coalesce(a, b) == IF a # None THEN a ELSE b

\* ------------------------------------------------------------------------
\* Pure helpers of the handler
\* ------------------------------------------------------------------------

\* String.prototype.trim on the header segments the model uses.
Trim(s) ==
  CASE s = " 10.0.0.1 " -> "10.0.0.1"
    [] s = " tok-u1" -> "tok-u1"
    [] s = " " -> ""
    [] s = " hi " -> "hi"
    [] OTHER -> s

\* The key is taken from the Authorization header, verified or not.
getClientIdentifierByHeader(req, userId, guestId) ==
  IF req.authorization.scheme = "Bearer " THEN "bearer:" \o req.authorization.rest
  ELSE IF Truthy(guestId) THEN "guest:" \o guestId
  ELSE "anonymous"

\* The guest id is looked at before the user id.
getClientIdentifierGuestFirst(req, userId, guestId) ==
  IF Truthy(guestId) THEN "guest:" \o guestId
  ELSE IF Truthy(userId) THEN "user:" \o userId
  ELSE "anonymous"

\* The x-forwarded-for header is absent, or present with the sequence of its
\* comma separated segments (split(",") yields at least one segment).
getClientIdentifier(req, userId, guestId) ==
  LET ipHeader == req.xff
      ipFromHeader == IF ipHeader.present THEN Trim(ipHeader.segments[1]) ELSE NULL
      ip == ipFromHeader
  IN  IF Truthy(userId) THEN "user:" \o userId
      ELSE IF Truthy(guestId) THEN "guest:" \o guestId
      ELSE IF Truthy(ip) THEN "ip:" \o ip
      ELSE "anonymous"

\* The entry isRateLimited leaves for key, and what it returns, at time t.
isRateLimitedOffByOne(store, key, t) ==
  IF key \notin DOMAIN store
  THEN [limited |-> FALSE, store |-> (key :> [count |-> 1, windowStart |-> t]) @@ store]
  ELSE IF t - store[key].windowStart > RATE_LIMIT_WINDOW_MS
  THEN [limited |-> FALSE, store |-> [store EXCEPT ![key] = [count |-> 1, windowStart |-> t]]]
  ELSE [limited |-> store[key].count + 1 >= RATE_LIMIT_MAX_REQUESTS,
        store |-> [store EXCEPT ![key].count = @ + 1]]

\* The window restarts at every admitted request instead of staying fixed.
isRateLimitedSliding(store, key, t) ==
  IF key \notin DOMAIN store
  THEN [limited |-> FALSE, store |-> (key :> [count |-> 1, windowStart |-> t]) @@ store]
  ELSE IF t - store[key].windowStart > RATE_LIMIT_WINDOW_MS
  THEN [limited |-> FALSE, store |-> [store EXCEPT ![key] = [count |-> 1, windowStart |-> t]]]
  ELSE [limited |-> store[key].count + 1 > RATE_LIMIT_MAX_REQUESTS,
        store |-> [store EXCEPT ![key] = [count |-> @.count + 1, windowStart |-> t]]]

\* The increment is lost once the ceiling is reached.
isRateLimitedLostUpdate(store, key, t) ==
  IF key \notin DOMAIN store
  THEN [limited |-> FALSE, store |-> (key :> [count |-> 1, windowStart |-> t]) @@ store]
  ELSE IF t - store[key].windowStart > RATE_LIMIT_WINDOW_MS
  THEN [limited |-> FALSE, store |-> [store EXCEPT ![key] = [count |-> 1, windowStart |-> t]]]
  ELSE [limited |-> store[key].count + 1 > RATE_LIMIT_MAX_REQUESTS,
        store |-> [store EXCEPT ![key].count = Min(@ + 1, RATE_LIMIT_MAX_REQUESTS)]]

\* One counter serves all keys: a call counts in every entry of the table.
isRateLimitedAllKeys(store, key, t) ==
  IF key \notin DOMAIN store
  THEN [limited |-> FALSE, store |-> (key :> [count |-> 1, windowStart |-> t]) @@ store]
  ELSE IF t - store[key].windowStart > RATE_LIMIT_WINDOW_MS
  THEN [limited |-> FALSE, store |-> [store EXCEPT ![key] = [count |-> 1, windowStart |-> t]]]
  ELSE [limited |-> store[key].count + 1 > RATE_LIMIT_MAX_REQUESTS,
        store |-> [k \in DOMAIN store |-> [store[k] EXCEPT !.count = @ + 1]]]

\* A window that has run out is not opened again.
isRateLimitedNoReset(store, key, t) ==
  IF key \notin DOMAIN store
  THEN [limited |-> FALSE, store |-> (key :> [count |-> 1, windowStart |-> t]) @@ store]
  ELSE [limited |-> store[key].count + 1 > RATE_LIMIT_MAX_REQUESTS,
        store |-> [store EXCEPT ![key].count = @ + 1]]

\* The window lasts half as long.
isRateLimitedHalfWindow(store, key, t) ==
  IF key \notin DOMAIN store
  THEN [limited |-> FALSE, store |-> (key :> [count |-> 1, windowStart |-> t]) @@ store]
  ELSE IF t - store[key].windowStart >= RATE_LIMIT_WINDOW_MS \div 2
  THEN [limited |-> FALSE, store |-> [store EXCEPT ![key] = [count |-> 1, windowStart |-> t]]]
  ELSE [limited |-> store[key].count + 1 > RATE_LIMIT_MAX_REQUESTS,
        store |-> [store EXCEPT ![key].count = @ + 1]]

isRateLimited(store, key, t) ==
  IF key \notin DOMAIN store
  THEN [limited |-> FALSE, store |-> (key :> [count |-> 1, windowStart |-> t]) @@ store]
  ELSE IF t - store[key].windowStart > RATE_LIMIT_WINDOW_MS
  THEN [limited |-> FALSE, store |-> [store EXCEPT ![key] = [count |-> 1, windowStart |-> t]]]
  ELSE [limited |-> store[key].count + 1 > RATE_LIMIT_MAX_REQUESTS,
        store |-> [store EXCEPT ![key].count = @ + 1]]

\* Array.prototype.slice(start) and slice(0, end) for start < 0 <= end.
SliceFrom(s, start) ==
  LET n == Len(s)
      k == IF start < 0 THEN Max(n + start, 0) ELSE Min(start, n)
  IN  SubSeq(s, k + 1, n)

SliceTo(s, end) == SubSeq(s, 1, Min(end, Len(s)))

\* Index of the first / last message of a role, 0 when there is none.
FindFirst(msgs, role) ==
  LET hits == {i \in 1..Len(msgs) : msgs[i].role = role}
  IN  IF hits = {} THEN 0 ELSE CHOOSE i \in hits : \A j \in hits : i <= j

FindLast(msgs, role) ==
  LET hits == {i \in 1..Len(msgs) : msgs[i].role = role}
  IN  IF hits = {} THEN 0 ELSE CHOOSE i \in hits : \A j \in hits : i >= j

SystemInstruction ==
  [role |-> "system", content |-> <<0>>]

\* limitedMessages keeps the first maxMessages entries instead of the last.
basetenMessagesHead(messages, maxMessages) ==
  <<SystemInstruction>> \o SliceTo(messages, maxMessages)

basetenMessagesOf(messages, maxMessages) ==
  <<SystemInstruction>> \o SliceFrom(messages, 0 - maxMessages)

\* usage is a record of nullable numbers; the three recorded token fields.
inputTokensOf(usage) ==
  Coalesce(usage.prompt_tokens, Coalesce(usage.input_tokens, usage.request_tokens))

outputTokensOf(usage) ==
  Coalesce(usage.completion_tokens, Coalesce(usage.output_tokens, usage.response_tokens))

totalTokensOf(usage) ==
  LET inputTokens == inputTokensOf(usage)
      outputTokens == outputTokensOf(usage)
  IN  Coalesce(usage.total_tokens,
               IF TruthyNum(inputTokens) /\ TruthyNum(outputTokens)
               THEN Some(inputTokens[1] + outputTokens[1])
               ELSE None)


\* ------------------------------------------------------------------------
\* State
\* ------------------------------------------------------------------------
VARIABLES
  env,               \* process.env: BASETEN_API_KEY, BASETEN_MODEL_SLUG
  now,               \* Date.now()
  rateLimitStore,    \* the module level Map: key -> {count, windowStart}
  conversations,     \* rows of table conversations, in insertion order
  messages,          \* rows of table messages
  model_invocations, \* rows of table model_invocations
  pc,                \* per slot: the await the handler is suspended at
  request,           \* per slot: the NextRequest being handled
  local,             \* per slot: the handler's local variables
  response,          \* per slot: the NextResponse returned
  started,           \* number of requests received so far
  observed,          \* per key: the calls of isRateLimited in the key's window
  client             \* the page: the state of Home and the position of handleSend

vars == <<env, now, rateLimitStore, conversations, messages, model_invocations,
          pc, request, local, response, started, observed, client>>

Slots == {1, 2}

NoUsage ==
  [prompt_tokens |-> None, input_tokens |-> None, request_tokens |-> None,
   completion_tokens |-> None, output_tokens |-> None, response_tokens |-> None,
   total_tokens |-> None]

NoReply ==
  [ok |-> FALSE, status |-> 0, parseable |-> FALSE, hasContent |-> FALSE,
   content |-> <<>>, usage |-> NoUsage]

NoRequest ==
  [json |-> "none", messages |-> [kind |-> "absent", items |-> <<>>],
   conversationId |-> NULL, guestId |-> NULL,
   authorization |-> [scheme |-> NULL, rest |-> NULL],
   xff |-> [present |-> FALSE, segments |-> <<>>]]

NoResponse ==
  [status |-> 0, error |-> NULL, conversationId |-> NULL, message |-> <<>>]

InitLocal ==
  [userId |-> NULL, clientKey |-> NULL, limited |-> FALSE, maxMessages |-> 0,
   resolvedConversationId |-> NULL, title |-> <<>>, lastUserMessage |-> <<>>,
   basetenMessages |-> <<>>, startedAt |-> 0, latencyMs |-> None,
   basetenResponse |-> NoReply, assistantContent |-> <<>>,
   inputTokens |-> None, outputTokens |-> None, totalTokens |-> None,
   insertUserError |-> FALSE, insertAssistantError |-> FALSE,
   metricsError |-> FALSE, calls |-> <<>>]

\* The page as it is mounted: useState initial values (guestId after the
\* effect has run). errorsInline tells the handleSend of lines 79-152, which
\* shows an error as an assistant message, from that of lines 351-444, which
\* shows a banner. outbox holds the POST on its way to the server, sends
\* counts the POSTs issued, capped whether a POST sent without a token was
\* answered 403 since the session was last signed in.
NewClient(errorsInline) ==
  [errorsInline |-> errorsInline, session |-> NULL, guestId |-> "g1",
   conversationId |-> NULL, messages |-> <<>>, input |-> "", isSending |-> FALSE,
   errorBanner |-> NULL, pc |-> "idle", outbox |-> <<>>, sends |-> 0,
   capped |-> FALSE]

\* NextResponse.json({error}, {status})
ErrorResponse(status, error) ==
  [status |-> status, error |-> error, conversationId |-> NULL, message |-> <<>>]

\* lines 109-112
RateLimitResponse ==
  ErrorResponse(429, "Rate limit exceeded. Please wait a moment and try again.")

\* lines 119-125
GuestLimitResponse ==
  ErrorResponse(403,
    "Guest conversations are limited. Sign in with Google to continue this conversation.")

\* An exception that leaves POST: the framework answers 500 with no JSON body.
UnhandledResponse ==
  [status |-> 500, error |-> NULL, conversationId |-> NULL, message |-> <<>>]

\* The result of running the handler from one await to the next one.
Step(p, l, resp) == [pc |-> p, local |-> l, response |-> resp]

\* ------------------------------------------------------------------------
\* The store: foreign keys of db/migrations/001_init.sql
\* ------------------------------------------------------------------------
ConversationIds == {conversations[i].id : i \in 1..Len(conversations)}

\* messages.conversation_id and model_invocations.conversation_id reference
\* conversations(id): the store rejects an insert that names no such row.
ForeignKeyHolds(conversationId) == conversationId \in ConversationIds

\* gen_random_uuid(): an id no row carries yet.
NewConversationId == "conv-" \o ToString(Len(conversations) + 1)

\* ------------------------------------------------------------------------
\* POST, lines 107-199, as the handler runs them between two awaits
\* ------------------------------------------------------------------------

\* lines 173-199: the truncated payload is built and the provider is called.
InvokeModel(req, l, t) ==
  Step("fetch",
       [l EXCEPT !.basetenMessages = basetenMessagesOf(req.messages.items, l.maxMessages),
                 !.startedAt = t,
                 !.calls = Append(@, "fetch")],
       NoResponse)

\* The user message is not written before the provider is called.
PersistUserTurnSkipped(req, l, t) == InvokeModel(req, l, t)

\* The first user message is the one inserted.
PersistUserTurnFirst(req, l, t) ==
  LET first == FindFirst(req.messages.items, "user")
  IN  IF first # 0
      THEN Step("insert_user",
                [l EXCEPT !.lastUserMessage = <<req.messages.items[first]>>,
                          !.calls = Append(@, "insert_user")],
                NoResponse)
      ELSE InvokeModel(req, l, t)

\* lines 156-165: the last user message, when there is one, is inserted.
PersistUserTurn(req, l, t) ==
  LET last == FindLast(req.messages.items, "user")
  IN  IF last # 0
      THEN Step("insert_user",
                [l EXCEPT !.lastUserMessage = <<req.messages.items[last]>>,
                          !.calls = Append(@, "insert_user")],
                NoResponse)
      ELSE InvokeModel(req, l, t)

\* lines 139-140: the owner columns of a new conversation row.
ConversationOwner(userId, guestId) ==
  [user_id |-> userId,
   guest_id |-> IF Truthy(userId) THEN NULL ELSE guestId]

\* The title is the whole content of the first user message.
TitleOfWhole(msgs) ==
  LET first == FindFirst(msgs, "user")
  IN  IF first # 0 /\ msgs[first].content # <<>>
      THEN Some(msgs[first].content)
      ELSE None

\* lines 131-134: the title of a new conversation, a string or null: the
\* content of the first user message, when it is not empty, cut to TITLE_MAX.
TitleOf(msgs) ==
  LET first == FindFirst(msgs, "user")
  IN  IF first # 0 /\ msgs[first].content # <<>>
      THEN Some(SliceTo(msgs[first].content, TITLE_MAX))
      ELSE None

\* A conversation is created for every request, supplied id or not.
ResolveConversationAlwaysNew(req, l, t) ==
  Step("insert_conversation",
       [l EXCEPT !.title = TitleOf(req.messages.items),
                 !.calls = Append(@, "insert_conversation")],
       NoResponse)

\* lines 128-144: a supplied conversation id is trusted, else one is created.
ResolveConversation(req, l, t) ==
  IF ~Truthy(req.conversationId)
  THEN Step("insert_conversation",
            [l EXCEPT !.title = TitleOf(req.messages.items),
                      !.calls = Append(@, "insert_conversation")],
            NoResponse)
  ELSE PersistUserTurn(req, [l EXCEPT !.resolvedConversationId = req.conversationId], t)

\* The guest cap truncates instead of rejecting.
TierCapTruncating(req, l, t) ==
  ResolveConversation(req,
    [l EXCEPT !.maxMessages = IF Truthy(l.userId) THEN MAX_AUTH_MESSAGES
                              ELSE MAX_GUEST_MESSAGES], t)

\* lines 115-126: the tier cap.
TierCap(req, l, t) ==
  LET isAuthenticated == Truthy(l.userId)
      maxMessages == IF isAuthenticated THEN MAX_AUTH_MESSAGES ELSE MAX_GUEST_MESSAGES
      l2 == [l EXCEPT !.maxMessages = maxMessages]
  IN  IF ~isAuthenticated /\ Len(req.messages.items) > maxMessages
      THEN Step("done", l2, GuestLimitResponse)
      ELSE ResolveConversation(req, l2, t)

\* What the calls of isRateLimited in the current window of a key add up to:
\* the window opens with the first call, or with the first call later than
\* RATE_LIMIT_WINDOW_MS after the window opened.
\* Where logged, log counts the admitted calls of the key by their time, over
\* all its windows.
Observe(obs, key, t, limited, logged) ==
  LET admitted == IF limited THEN 0 ELSE 1
      old == IF key \in DOMAIN obs THEN obs[key].log ELSE <<>>
      log == IF ~logged \/ limited THEN old
             ELSE IF t \in DOMAIN old THEN [old EXCEPT ![t] = @ + 1]
             ELSE (t :> 1) @@ old
  IN  IF key \notin DOMAIN obs
      THEN (key :> [opened |-> t, calls |-> 1, admitted |-> admitted, log |-> log])
             @@ obs
      ELSE IF t - obs[key].opened > RATE_LIMIT_WINDOW_MS
      THEN [obs EXCEPT ![key] = [opened |-> t, calls |-> 1, admitted |-> admitted,
                                 log |-> log]]
      ELSE [obs EXCEPT ![key] = [opened |-> @.opened, calls |-> @.calls + 1,
                                 admitted |-> @.admitted + admitted, log |-> log]]

\* The tier cap is tested before the rate limit: an over-cap guest request
\* is refused without a call of isRateLimited.
CheckAdmissionCapFirst(r, userId, e) ==
  LET req == request[r]
      clientKey == getClientIdentifier(req, userId, req.guestId)
      rl == isRateLimited(rateLimitStore, clientKey, now)
      capped == ~Truthy(userId) /\ Len(req.messages.items) > MAX_GUEST_MESSAGES
      l == [local[r] EXCEPT !.userId = userId, !.clientKey = clientKey,
                            !.limited = ~capped /\ rl.limited]
      step == IF capped THEN TierCap(req, l, now)
              ELSE IF rl.limited THEN Step("done", l, RateLimitResponse)
              ELSE TierCap(req, l, now)
  IN  /\ rateLimitStore' = IF capped THEN rateLimitStore ELSE rl.store
      /\ observed' = IF capped THEN observed
                     ELSE Observe(observed, clientKey, now, rl.limited, e.logged)
      /\ pc' = [pc EXCEPT ![r] = step.pc]
      /\ local' = [local EXCEPT ![r] = step.local]
      /\ response' = [response EXCEPT ![r] = step.response]

\* lines 107-113 and on: the handler once the user id is known.
CheckAdmission(r, userId, e) ==
  LET req == request[r]
      clientKey == getClientIdentifier(req, userId, req.guestId)
      rl == isRateLimited(rateLimitStore, clientKey, now)
      l == [local[r] EXCEPT !.userId = userId, !.clientKey = clientKey,
                            !.limited = rl.limited]
      step == IF rl.limited
              THEN Step("done", l, RateLimitResponse)
              ELSE TierCap(req, l, now)
  IN  /\ rateLimitStore' = rl.store
      /\ observed' = Observe(observed, clientKey, now, rl.limited, e.logged)
      /\ pc' = [pc EXCEPT ![r] = step.pc]
      /\ local' = [local EXCEPT ![r] = step.local]
      /\ response' = [response EXCEPT ![r] = step.response]


\* ------------------------------------------------------------------------
\* Actions: an environment e names the slots in use, the requests clients
\* send, what the identity provider, the store and the LLM provider answer,
\* and how the clock advances.
\* ------------------------------------------------------------------------

\* What auth.getUser may answer for an access token.
GetUserOutcomes(accessToken) ==
  IF accessToken = "tok-u1"
  THEN {[error |-> FALSE, user |-> "u1"], [error |-> TRUE, user |-> NULL]}
  ELSE {[error |-> TRUE, user |-> NULL], [error |-> FALSE, user |-> NULL]}

\* Only the API key is looked at.
ConfigurationMissingKeyOnly(environment) == ~Truthy(environment.BASETEN_API_KEY)

\* line 64: !basetenApiKey || !basetenModelSlug
ConfigurationMissing(environment) ==
  ~Truthy(environment.BASETEN_API_KEY) \/ ~Truthy(environment.BASETEN_MODEL_SLUG)

\* lines 60-78: a request arrives at a free slot.
Receive(r, e) ==
  /\ pc[r] = "idle"
  /\ started < e.budget
  /\ started' = started + 1
  /\ \E q \in e.requests : request' = [request EXCEPT ![r] = q]
  /\ local' = [local EXCEPT ![r] = InitLocal]
  /\ IF ConfigurationMissing(env)
     THEN /\ pc' = [pc EXCEPT ![r] = "done"]
          /\ response' = [response EXCEPT ![r] =
               ErrorResponse(500, "Baseten configuration is missing.")]
     ELSE /\ pc' = [pc EXCEPT ![r] = "request_json"]
          /\ response' = [response EXCEPT ![r] = NoResponse]
  /\ client' = [client EXCEPT !.outbox = <<>>]
  /\ UNCHANGED <<env, now, rateLimitStore, conversations, messages,
                 model_invocations, observed>>

\* lines 78-105 (and 107-199 when no token is to be verified).
RequestJsonReturns(r, e) ==
  /\ pc[r] = "request_json"
  /\ LET req == request[r]
         auth == req.authorization
         finish(resp) ==
           /\ pc' = [pc EXCEPT ![r] = "done"]
           /\ response' = [response EXCEPT ![r] = resp]
           /\ UNCHANGED <<local, rateLimitStore, observed>>
     IN  IF req.json = "invalid"
         THEN finish(ErrorResponse(400, "Invalid JSON body."))
         ELSE IF req.json = "null"
         THEN finish(UnhandledResponse)
         ELSE IF req.messages.kind # "array" \/ Len(req.messages.items) = 0
         THEN finish(ErrorResponse(400, "'messages' array is required."))
         ELSE IF auth.scheme = "Bearer " /\ Truthy(Trim(auth.rest))
         THEN /\ pc' = [pc EXCEPT ![r] = "get_user"]
              /\ local' = [local EXCEPT ![r].calls = Append(@, "get_user")]
              /\ UNCHANGED <<response, rateLimitStore, observed>>
         ELSE CheckAdmission(r, NULL, e)
  /\ UNCHANGED <<client, env, now, conversations, messages, model_invocations,
                 request, started>>

\* lines 98-199: auth.getUser answers {data, error}.
GetUserReturns(r, e) ==
  /\ pc[r] = "get_user"
  /\ \E out \in GetUserOutcomes(Trim(request[r].authorization.rest)) :
       CheckAdmission(r, IF ~out.error /\ Truthy(out.user) THEN out.user ELSE NULL, e)
  /\ UNCHANGED <<client, env, now, conversations, messages, model_invocations,
                 request, started>>

\* What insert(...).select("id").single() answers as {data, error}: the row
\* when the store took it, else an error, or neither an error nor a row.
ConversationInsertOutcomes(ok) ==
  IF ok THEN {[error |-> FALSE, data |-> TRUE]}
  ELSE {[error |-> TRUE, data |-> FALSE], [error |-> FALSE, data |-> FALSE]}

\* Only a reported error stops the request.
CreateFailedOnErrorOnly(out) == out.error

\* line 146: error || !data
CreateFailed(out) == out.error \/ ~out.data

\* lines 136-199: the conversation insert answers.
InsertConversationReturns(r, e) ==
  /\ pc[r] = "insert_conversation"
  /\ \E ok \in e.storeOk : \E out \in ConversationInsertOutcomes(ok) :
     LET l == local[r]
         id == NewConversationId
         owner == ConversationOwner(l.userId, request[r].guestId)
         row == [id |-> id, user_id |-> owner.user_id, guest_id |-> owner.guest_id,
                 title |-> l.title]
         step == IF CreateFailed(out)
                 THEN Step("done", l, ErrorResponse(500, "Failed to create conversation."))
                 ELSE PersistUserTurn(request[r],
                        [l EXCEPT !.resolvedConversationId = id], now)
     IN  /\ conversations' = IF ok THEN Append(conversations, row) ELSE conversations
         /\ pc' = [pc EXCEPT ![r] = step.pc]
         /\ local' = [local EXCEPT ![r] = step.local]
         /\ response' = [response EXCEPT ![r] = step.response]
  /\ UNCHANGED <<client, env, now, rateLimitStore, messages, model_invocations,
                 request, started, observed>>

\* lines 159-199: the insert of the user message answers; an error is logged.
InsertUserMessageReturns(r, e) ==
  /\ pc[r] = "insert_user"
  /\ \E ok \in e.storeOk :
     LET l == local[r]
         accepted == ok /\ ForeignKeyHolds(l.resolvedConversationId)
         row == [conversation_id |-> l.resolvedConversationId, role |-> "user",
                 content |-> l.lastUserMessage[1].content]
         step == InvokeModel(request[r], [l EXCEPT !.insertUserError = ~accepted], now)
     IN  /\ messages' = IF accepted THEN Append(messages, row) ELSE messages
         /\ pc' = [pc EXCEPT ![r] = step.pc]
         /\ local' = [local EXCEPT ![r] = step.local]
         /\ response' = [response EXCEPT ![r] = step.response]
  /\ UNCHANGED <<client, env, now, rateLimitStore, conversations, model_invocations,
                 request, started, observed>>

\* lines 186-212: the provider answers, or fetch rejects and the exception
\* leaves the handler (the body of a failed answer is read for the log only).
FetchReturns(r, e) ==
  /\ pc[r] = "fetch"
  /\ \E reply \in e.replies :
     LET l == [local[r] EXCEPT !.latencyMs = Some(now - local[r].startedAt),
                               !.basetenResponse = reply]
     IN  IF reply = NoReply
         THEN /\ pc' = [pc EXCEPT ![r] = "done"]
              /\ response' = [response EXCEPT ![r] = UnhandledResponse]
              /\ UNCHANGED local
         ELSE IF ~reply.ok
         THEN /\ pc' = [pc EXCEPT ![r] = "done"]
              /\ local' = [local EXCEPT ![r] = l]
              /\ response' = [response EXCEPT ![r] =
                   ErrorResponse(502, "Baseten request failed.")]
         ELSE /\ pc' = [pc EXCEPT ![r] = "response_json"]
              /\ local' = [local EXCEPT ![r] = l]
              /\ UNCHANGED response
  /\ UNCHANGED <<client, env, now, rateLimitStore, conversations, messages,
                 model_invocations, request, started, observed>>

\* Only a missing content is refused, an empty one is passed on.
AssistantContentUndefined(json) == ~json.hasContent

\* line 217: !assistantContent, for a missing and for an empty content.
AssistantContentMissing(json) == ~json.hasContent \/ json.content = <<>>

\* lines 212-239: the body of the provider's answer is parsed.
ResponseJsonReturns(r) ==
  /\ pc[r] = "response_json"
  /\ LET l == local[r]
         json == l.basetenResponse
         step == IF ~json.parseable
                 THEN Step("done", l, UnhandledResponse)
                 ELSE IF AssistantContentMissing(json)
                 THEN Step("done", l, ErrorResponse(500, "Unexpected response from Baseten."))
                 ELSE Step("insert_assistant",
                           [l EXCEPT !.assistantContent = json.content,
                                     !.inputTokens = inputTokensOf(json.usage),
                                     !.outputTokens = outputTokensOf(json.usage),
                                     !.totalTokens = totalTokensOf(json.usage),
                                     !.calls = Append(@, "insert_assistant")],
                           NoResponse)
     IN  /\ pc' = [pc EXCEPT ![r] = step.pc]
         /\ local' = [local EXCEPT ![r] = step.local]
         /\ response' = [response EXCEPT ![r] = step.response]
  /\ UNCHANGED <<client, env, now, rateLimitStore, conversations, messages,
                 model_invocations, request, started, observed>>

\* A rejected assistant message ends the request with an error.
AssistantInsertFatal(l, accepted) ==
  IF accepted
  THEN Step("insert_metrics",
            [l EXCEPT !.insertAssistantError = FALSE,
                      !.calls = Append(@, "insert_metrics")],
            NoResponse)
  ELSE Step("done", [l EXCEPT !.insertAssistantError = TRUE],
            ErrorResponse(500, "Failed to store message."))

\* A rejected assistant message is inserted again until the store takes it.
AssistantInsertRetried(l, accepted) ==
  IF accepted
  THEN Step("insert_metrics",
            [l EXCEPT !.insertAssistantError = FALSE,
                      !.calls = Append(@, "insert_metrics")],
            NoResponse)
  ELSE Step("insert_assistant", [l EXCEPT !.insertAssistantError = TRUE], NoResponse)

\* lines 241-256: an error of the assistant insert is logged, and the metrics
\* insert is issued.
AfterAssistantInsert(l, accepted) ==
  Step("insert_metrics",
       [l EXCEPT !.insertAssistantError = ~accepted,
                 !.calls = Append(@, "insert_metrics")],
       NoResponse)

\* lines 233-256: the insert of the assistant message answers.
InsertAssistantMessageReturns(r, e) ==
  /\ pc[r] = "insert_assistant"
  /\ \E ok \in e.storeOk :
     LET l == local[r]
         accepted == ok /\ ForeignKeyHolds(l.resolvedConversationId)
         row == [conversation_id |-> l.resolvedConversationId, role |-> "assistant",
                 content |-> l.assistantContent]
         step == AfterAssistantInsert(l, accepted)
     IN  /\ messages' = IF accepted THEN Append(messages, row) ELSE messages
         /\ pc' = [pc EXCEPT ![r] = step.pc]
         /\ local' = [local EXCEPT ![r] = step.local]
         /\ response' = [response EXCEPT ![r] = step.response]
  /\ UNCHANGED <<client, env, now, rateLimitStore, conversations, model_invocations,
                 request, started, observed>>

\* Whether the store takes the metrics row of slot r.
MetricsAccepted(r, ok) ==
  ok /\ ForeignKeyHolds(local[r].resolvedConversationId)

\* lines 245-269: the metrics insert answers and the reply is returned.
InsertMetricsReturns(r, e) ==
  /\ pc[r] = "insert_metrics"
  /\ \E ok \in e.storeOk, id \in e.messageIds :
     LET l == local[r]
         accepted == MetricsAccepted(r, ok)
         row == [conversation_id |-> l.resolvedConversationId,
                 provider |-> "baseten", model |-> env.BASETEN_MODEL_SLUG,
                 latency_ms |-> l.latencyMs, input_tokens |-> l.inputTokens,
                 output_tokens |-> l.outputTokens, total_tokens |-> l.totalTokens,
                 estimated_cost_usd |-> None]
     IN  /\ model_invocations' =
              IF accepted THEN Append(model_invocations, row) ELSE model_invocations
         /\ pc' = [pc EXCEPT ![r] = "done"]
         /\ local' = [local EXCEPT ![r].metricsError = ~accepted]
         /\ response' = [response EXCEPT ![r] =
              [status |-> 200, error |-> NULL,
               conversationId |-> l.resolvedConversationId,
               message |-> <<[id |-> "assistant-" \o id, role |-> "assistant",
                              content |-> l.assistantContent]>>]]
  /\ UNCHANGED <<client, env, now, rateLimitStore, conversations, messages,
                 request, started, observed>>

\* The response has been sent: the slot takes the next request.
Complete(r) ==
  /\ pc[r] = "done"
  /\ pc' = [pc EXCEPT ![r] = "idle"]
  /\ request' = [request EXCEPT ![r] = NoRequest]
  /\ local' = [local EXCEPT ![r] = InitLocal]
  /\ response' = [response EXCEPT ![r] = NoResponse]
  /\ UNCHANGED <<client, env, now, rateLimitStore, conversations, messages,
                 model_invocations, started, observed>>

\* Date.now() advances.
Tick(d) ==
  /\ now + d <= MaxTime
  /\ now' = now + d
  /\ UNCHANGED <<client, env, rateLimitStore, conversations, messages, model_invocations,
                 pc, request, local, response, started, observed>>


\* ------------------------------------------------------------------------
\* Inputs
\* ------------------------------------------------------------------------

\* A submitted history of n messages; message i has content <<i>>.
RoleAt(shape, i) ==
  CASE shape = "chat" -> IF i % 2 = 1 THEN "user" ELSE "assistant"
    [] shape = "system" -> IF i = 1 THEN "system"
                           ELSE IF i % 2 = 0 THEN "user" ELSE "assistant"
    [] OTHER -> "assistant"

History(n, shape) ==
  [i \in 1..n |-> [role |-> RoleAt(shape, i), content |-> <<i>>]]

Shapes == {"chat", "system", "assistant"}

HistoryLens ==
  {1, 2, 3} \cup (MAX_GUEST_MESSAGES .. MAX_GUEST_MESSAGES + MaxOver)
            \cup (MAX_AUTH_MESSAGES .. MAX_AUTH_MESSAGES + MaxOver)

NoAuth == [scheme |-> NULL, rest |-> NULL]
Bearer(rest) == [scheme |-> "Bearer ", rest |-> rest]
BasicAuth == [scheme |-> "Basic ", rest |-> "abc"]

NoXff == [present |-> FALSE, segments |-> <<>>]
Xff(segments) == [present |-> TRUE, segments |-> segments]

Array(items) == [kind |-> "array", items |-> items]

Req(json, msgs, conversationId, guestId, auth, xff) ==
  [json |-> json, messages |-> msgs, conversationId |-> conversationId,
   guestId |-> guestId, authorization |-> auth, xff |-> xff]

\* Requests that vary who sends them.
IdentityRequests ==
  {Req("object", Array(History(1, "chat")), c, g, a, x) :
     c \in {NULL, "c0"}, g \in {NULL, "", "g1", "u1"},
     a \in {NoAuth, BasicAuth, Bearer("tok-u1"), Bearer(" tok-u1"), Bearer("bad"),
            Bearer(" ")},
     x \in {NoXff, Xff(<<"">>), Xff(<<" 10.0.0.1 ", "10.0.0.2">>)}}

\* Requests that vary the submitted history.
HistoryRequests ==
  {Req("object", Array(History(n, shape)), c, "g1", a, NoXff) :
     n \in HistoryLens, shape \in Shapes, c \in {NULL, "c0", "c9"},
     a \in {NoAuth, Bearer("tok-u1")}}

\* A history of n messages whose contents are len characters long; message i
\* consists of the character i.
LongHistory(n, shape, len) ==
  [i \in 1..n |-> [role |-> RoleAt(shape, i), content |-> [j \in 1..len |-> i]]]

TitleLens == {0, 1} \cup (TITLE_MAX .. TITLE_MAX + MaxOver)

\* First turns that vary the content the title is taken from.
TitleRequests ==
  {Req("object", Array(LongHistory(3, shape, len)), NULL, "g1", a, NoXff) :
     shape \in Shapes, len \in TitleLens, a \in {NoAuth, Bearer("tok-u1")}}

\* Requests whose body the handler refuses.
MalformedRequests ==
  {Req(j, m, NULL, "g1", NoAuth, NoXff) :
     j \in {"object"},
     m \in {[kind |-> "absent", items |-> <<>>], [kind |-> "other", items |-> <<>>],
            Array(<<>>)}}
  \cup {Req(j, [kind |-> "absent", items |-> <<>>], NULL, NULL, NoAuth, NoXff) :
          j \in {"invalid", "null"}}

Usage(p, c, t) ==
  [NoUsage EXCEPT !.prompt_tokens = p, !.completion_tokens = c, !.total_tokens = t]

Reply(ok, status, parseable, hasContent, content, usage) ==
  [ok |-> ok, status |-> status, parseable |-> parseable, hasContent |-> hasContent,
   content |-> content, usage |-> usage]

FailedReply == Reply(FALSE, 503, FALSE, FALSE, <<>>, NoUsage)
GoodReply(usage) == Reply(TRUE, 200, TRUE, TRUE, <<99>>, usage)

PipelineReplies ==
  {NoReply, FailedReply,
   Reply(TRUE, 200, FALSE, FALSE, <<>>, NoUsage),
   Reply(TRUE, 200, TRUE, FALSE, <<>>, NoUsage),
   Reply(TRUE, 200, TRUE, TRUE, <<>>, NoUsage),
   GoodReply(NoUsage),
   GoodReply(Usage(Some(10), Some(5), None))}

\* Math.random().toString(36).slice(2) in makeClientMessageId
MessageIds == {"k1", "k2"}

Configured == [BASETEN_API_KEY |-> "key", BASETEN_MODEL_SLUG |-> "model"]

\* A conversation an earlier request of guest g1 created.
KnownConversation ==
  [id |-> "c0", user_id |-> NULL, guest_id |-> "g1", title |-> Some(<<1>>)]

\* The table as RATE_LIMIT_MAX_REQUESTS requests of each key at time 0 leave
\* it (SpecRate reaches such an entry from the empty table).
SpentStore ==
  [k \in {"user:u1", "guest:g1", "ip:10.0.0.1", "anonymous"} |->
     [count |-> RATE_LIMIT_MAX_REQUESTS, windowStart |-> 0]]

ObservedOf(store) ==
  [k \in DOMAIN store |->
     [opened |-> store[k].windowStart, calls |-> store[k].count,
      admitted |-> Min(store[k].count, RATE_LIMIT_MAX_REQUESTS), log |-> <<>>]]

\* One request at a time, every input, every answer of the collaborators.
PipelineEnv ==
  [slots |-> {1}, budget |-> 1,
   requests |-> IdentityRequests \cup HistoryRequests \cup TitleRequests
                  \cup MalformedRequests,
   storeOk |-> BOOLEAN, replies |-> PipelineReplies, messageIds |-> MessageIds,
   ticks |-> {RATE_LIMIT_WINDOW_MS + 1},
   envs |-> {Configured, [Configured EXCEPT !.BASETEN_API_KEY = NULL],
             [Configured EXCEPT !.BASETEN_MODEL_SLUG = ""]},
   stores |-> {<<>>, SpentStore},
   logged |-> FALSE,
   clients |-> {NewClient(FALSE)}]

\* ------------------------------------------------------------------------
\* Specifications
\* ------------------------------------------------------------------------
InitWith(e) ==
  /\ env \in e.envs
  /\ now = 0
  /\ rateLimitStore \in e.stores
  /\ observed = ObservedOf(rateLimitStore)
  /\ conversations = <<KnownConversation>>
  /\ messages = <<>>
  /\ model_invocations = <<>>
  /\ pc = [r \in Slots |-> "idle"]
  /\ request = [r \in Slots |-> NoRequest]
  /\ local = [r \in Slots |-> InitLocal]
  /\ response = [r \in Slots |-> NoResponse]
  /\ started = 0
  /\ client \in e.clients

NextWith(e) ==
  \/ \E r \in e.slots :
       \/ Receive(r, e)
       \/ RequestJsonReturns(r, e)
       \/ GetUserReturns(r, e)
       \/ InsertConversationReturns(r, e)
       \/ InsertUserMessageReturns(r, e)
       \/ FetchReturns(r, e)
       \/ ResponseJsonReturns(r)
       \/ InsertAssistantMessageReturns(r, e)
       \/ InsertMetricsReturns(r, e)
       \/ Complete(r)
  \/ \E d \in e.ticks : Tick(d)

Init == InitWith(PipelineEnv)
Next == NextWith(PipelineEnv)
Spec == Init /\ [][Next]_vars


\* Two requests in flight from one guest, more requests than the ceiling
\* admits, while the store is down; the clock advances by half windows.
RateRequests ==
  {Req("object", Array(History(1, "chat")), "c0", "g1", NoAuth, NoXff),
   Req("object", Array(History(1, "chat")), NULL, "g1", Bearer("bad"), NoXff),
   Req("object", Array(History(MAX_GUEST_MESSAGES + 1, "chat")), "c0", "g1",
       NoAuth, NoXff)}

RateEnv ==
  [slots |-> Slots, budget |-> RATE_LIMIT_MAX_REQUESTS + MaxExtraRequests,
   requests |-> RateRequests,
   storeOk |-> {FALSE}, replies |-> {GoodReply(NoUsage)}, messageIds |-> {"k1"},
   ticks |-> {RATE_LIMIT_WINDOW_MS \div 2, RATE_LIMIT_WINDOW_MS \div 2 + 1},
   envs |-> {Configured},
   stores |-> {<<>>},
   logged |-> FALSE,
   clients |-> {NewClient(FALSE)}]

InitRate == InitWith(RateEnv)
NextRate == NextWith(RateEnv)
SpecRate == InitRate /\ [][NextRate]_vars


\* Every usage object a provider may report, for two plain first turns.
TokenValues == {None, Some(0), Some(MaxTokens)}

Usages ==
  [prompt_tokens : TokenValues, input_tokens : TokenValues,
   request_tokens : TokenValues, completion_tokens : TokenValues,
   output_tokens : TokenValues, response_tokens : TokenValues,
   total_tokens : TokenValues]

UsageEnv ==
  [slots |-> {1}, budget |-> 1,
   requests |-> {Req("object", Array(History(1, "chat")), NULL, "g1", a, NoXff) :
                   a \in {NoAuth, Bearer("tok-u1")}},
   storeOk |-> {TRUE},
   replies |-> {GoodReply(u) : u \in Usages \cup {Usage(Some(10), Some(5), None)}},
   messageIds |-> {"k1"},
   ticks |-> {RATE_LIMIT_WINDOW_MS + 1},
   envs |-> {Configured},
   stores |-> {<<>>},
   logged |-> FALSE,
   clients |-> {NewClient(FALSE)}]

InitUsage == InitWith(UsageEnv)
NextUsage == NextWith(UsageEnv)
SpecUsage == InitUsage /\ [][NextUsage]_vars


\* The same request sent with no token, with a token the identity provider
\* refuses and with a token it may accept, by two clients at a time.
TwinBodies ==
  {[n |-> 1, conversationId |-> NULL], [n |-> 1, conversationId |-> "c0"],
   [n |-> MAX_GUEST_MESSAGES + 1, conversationId |-> "c0"]}

TwinRequests ==
  {Req("object", Array(History(b.n, "chat")), b.conversationId, "g1", a, NoXff) :
     b \in TwinBodies, a \in {NoAuth, Bearer("bad"), Bearer(" "), Bearer("tok-u1")}}

TwinEnv ==
  [slots |-> Slots, budget |-> 2,
   requests |-> TwinRequests,
   storeOk |-> BOOLEAN, replies |-> {GoodReply(NoUsage)},
   messageIds |-> {"k1"},
   ticks |-> {RATE_LIMIT_WINDOW_MS + 1},
   envs |-> {Configured},
   stores |-> {<<>>, SpentStore},
   logged |-> FALSE,
   clients |-> {NewClient(FALSE)}]

InitTwin == InitWith(TwinEnv)
NextTwin == NextWith(TwinEnv)
SpecTwin == InitTwin /\ [][NextTwin]_vars


\* One guest sends more than two windows admit, one request at a time, while
\* the store is down; the clock advances by half windows, and the times of
\* the admitted calls are logged.
BurstEnv ==
  [slots |-> {1}, budget |-> 2 * RATE_LIMIT_MAX_REQUESTS + MaxExtraRequests,
   requests |-> RateRequests,
   storeOk |-> {FALSE}, replies |-> {GoodReply(NoUsage)}, messageIds |-> {"k1"},
   ticks |-> {RATE_LIMIT_WINDOW_MS \div 2, RATE_LIMIT_WINDOW_MS \div 2 + 1},
   envs |-> {Configured},
   stores |-> {<<>>},
   logged |-> TRUE,
   clients |-> {NewClient(FALSE)}]

InitBurst == InitWith(BurstEnv)
NextBurst == NextWith(BurstEnv)
SpecBurst == InitBurst /\ [][NextBurst]_vars


\* A guest and a signed-in user send more requests than one window admits,
\* one request at a time, while the store is down.
KeysRequests ==
  RateRequests \cup
    {Req("object", Array(History(1, "chat")), "c0", "g1", Bearer("tok-u1"), NoXff)}

KeysEnv ==
  [slots |-> {1}, budget |-> RATE_LIMIT_MAX_REQUESTS + MaxExtraRequests,
   requests |-> KeysRequests,
   storeOk |-> {FALSE}, replies |-> {GoodReply(NoUsage)}, messageIds |-> {"k1"},
   ticks |-> {RATE_LIMIT_WINDOW_MS + 1},
   envs |-> {Configured},
   stores |-> {<<>>},
   logged |-> FALSE,
   clients |-> {NewClient(FALSE)}]

InitKeys == InitWith(KeysEnv)
NextKeys == NextWith(KeysEnv)
SpecKeys == InitKeys /\ [][NextKeys]_vars


\* ------------------------------------------------------------------------
\* The page: handleSend of src/app/page.tsx, one action per stretch of code
\* between two awaits, and the server behind fetch("/api/chat")
\* ------------------------------------------------------------------------

\* The characters of the texts the page handles.
Chars(text) ==
  CASE text = "" -> <<>>
    [] text = "hi" -> <<104, 105>>
    [] text = "error" -> <<101>>

\* nextMessages.map((m) => ({role: m.role, content: m.content}))
Outgoing(msgs) ==
  [i \in 1..Len(msgs) |-> [role |-> msgs[i].role, content |-> msgs[i].content]]

\* Only a blank input is refused.
SendRefusedBlankOnly(c) == ~Truthy(Trim(c.input))

\* line 354 (82): !trimmed || isSending
SendRefused(c) == ~Truthy(Trim(c.input)) \/ c.isSending

\* The user types into the text area.
TypeInput(text) ==
  /\ client.input # text
  /\ client' = [client EXCEPT !.input = text]
  /\ UNCHANGED <<env, now, rateLimitStore, conversations, messages,
                 model_invocations, pc, request, local, response, started, observed>>

\* lines 351-367 (79-93): the form is submitted.
HandleSend ==
  /\ client.sends < MaxSends
  /\ IF SendRefused(client)
     THEN UNCHANGED client
     ELSE client' =
            [client EXCEPT
               !.errorBanner = NULL,
               !.messages = Append(@, [id |-> "uuid", role |-> "user",
                                       content |-> Chars(Trim(client.input))]),
               !.input = "",
               !.isSending = TRUE,
               !.pc = "get_session",
               !.sends = @ + 1]
  /\ UNCHANGED <<env, now, rateLimitStore, conversations, messages,
                 model_invocations, pc, request, local, response, started, observed>>

\* The error message stays on the page and the button is enabled again.
SendFailedStaysSending(c) ==
  IF c.errorsInline
  THEN [c EXCEPT !.messages = Append(@, [id |-> "uuid", role |-> "assistant",
                                         content |-> Chars("error")]),
                 !.pc = "idle", !.outbox = <<>>]
  ELSE [c EXCEPT !.errorBanner = "error", !.pc = "idle", !.outbox = <<>>]

\* lines 433-443 (140-151): catch and finally.
SendFailed(c) ==
  IF c.errorsInline
  THEN [c EXCEPT !.messages = Append(@, [id |-> "uuid", role |-> "assistant",
                                         content |-> Chars("error")]),
                 !.isSending = FALSE, !.pc = "idle", !.outbox = <<>>]
  ELSE [c EXCEPT !.errorBanner = "error",
                 !.isSending = FALSE, !.pc = "idle", !.outbox = <<>>]

\* lines 370-388 (96-114): getSession answers and the POST is issued with the
\* whole history.
GetSessionReturns ==
  /\ client.pc = "get_session"
  /\ LET token == client.session
         q == Req("object", Array(Outgoing(client.messages)),
                  client.conversationId, client.guestId,
                  IF Truthy(token) THEN Bearer(token) ELSE NoAuth, NoXff)
     IN  client' = [client EXCEPT !.pc = "fetch", !.outbox = <<q>>]
  /\ UNCHANGED <<env, now, rateLimitStore, conversations, messages,
                 model_invocations, pc, request, local, response, started, observed>>

\* fetch rejects: the POST does not reach the server.
FetchRejects ==
  /\ client.pc = "fetch" /\ client.outbox # <<>>
  /\ client' = SendFailed(client)
  /\ UNCHANGED <<env, now, rateLimitStore, conversations, messages,
                 model_invocations, pc, request, local, response, started, observed>>

\* A page that takes the user message back when its request is refused.
AfterResponseDropsRefused(c, res, token) ==
  LET capped == c.capped \/ (res.status = 403 /\ ~Truthy(token))
      ended == [c EXCEPT !.isSending = FALSE, !.pc = "idle", !.capped = capped]
  IN  IF res.status # 200
      THEN [ended EXCEPT !.messages = SubSeq(@, 1, Len(@) - 1),
                         !.errorBanner = "error"]
      ELSE [ended EXCEPT
              !.conversationId =
                 IF Truthy(res.conversationId) /\ ~Truthy(c.conversationId)
                 THEN res.conversationId ELSE @,
              !.messages = IF res.message # <<>> THEN Append(@, res.message[1]) ELSE @,
              !.errorBanner = NULL]

\* lines 390-432 (116-139): the page after fetch resolved with res.
AfterResponse(c, res, token) ==
  LET capped == c.capped \/ (res.status = 403 /\ ~Truthy(token))
      ended == [c EXCEPT !.isSending = FALSE, !.pc = "idle", !.capped = capped]
  IN  IF res.status # 200
      THEN IF c.errorsInline
           THEN [ended EXCEPT !.messages =
                   Append(@, [id |-> "uuid", role |-> "assistant",
                              content |-> Chars("error")])]
           ELSE [ended EXCEPT !.errorBanner =
                   IF res.error # NULL /\ res.status \in {403, 429}
                   THEN "warning" ELSE "error"]
      ELSE [ended EXCEPT
              !.conversationId =
                 IF Truthy(res.conversationId) /\ ~Truthy(c.conversationId)
                 THEN res.conversationId ELSE @,
              !.messages = IF res.message # <<>> THEN Append(@, res.message[1]) ELSE @,
              !.errorBanner = NULL]


\* fetch resolves with the response of the handler of slot r.
FetchResolves(r) ==
  /\ client.pc = "fetch" /\ client.outbox = <<>>
  /\ pc[r] = "done"
  /\ client' = AfterResponse(client, response[r],
                             IF request[r].authorization = NoAuth THEN NULL
                             ELSE request[r].authorization.rest)
  /\ pc' = [pc EXCEPT ![r] = "idle"]
  /\ request' = [request EXCEPT ![r] = NoRequest]
  /\ local' = [local EXCEPT ![r] = InitLocal]
  /\ response' = [response EXCEPT ![r] = NoResponse]
  /\ UNCHANGED <<env, now, rateLimitStore, conversations, messages,
                 model_invocations, started, observed>>

\* onAuthStateChange: the session is signed in or out between two sends.
SessionChanges(token) ==
  /\ client.pc = "idle"
  /\ client.session # token
  /\ client' = [client EXCEPT !.session = token,
                              !.capped = IF token # NULL THEN FALSE ELSE @]
  /\ UNCHANGED <<env, now, rateLimitStore, conversations, messages,
                 model_invocations, pc, request, local, response, started, observed>>

\* The page after five exchanges in the known conversation, two messages
\* short of the guest cap.
LongSession(errorsInline) ==
  [NewClient(errorsInline) EXCEPT
     !.conversationId = KnownConversation.id,
     !.messages = [i \in 1..(MAX_GUEST_MESSAGES - 2) |->
                     IF i % 2 = 1
                     THEN [id |-> "uuid", role |-> "user", content |-> Chars("hi")]
                     ELSE [id |-> "assistant-k1", role |-> "assistant",
                           content |-> <<99>>]]]

\* The table after earlier requests of the window left two more to admit.
BusyStore ==
  [k \in {"user:u1", "guest:g1"} |->
     [count |-> RATE_LIMIT_MAX_REQUESTS - 2, windowStart |-> 0]]

\* One page of a guest who may sign in, the store and the provider working.
ClientEnv ==
  [slots |-> {1}, budget |-> MaxSends,
   requests |-> {},
   storeOk |-> {TRUE}, replies |-> {GoodReply(NoUsage)}, messageIds |-> {"k1"},
   ticks |-> {RATE_LIMIT_WINDOW_MS + 1},
   envs |-> {Configured},
   stores |-> {BusyStore},
   logged |-> FALSE,
   clients |-> {NewClient(TRUE), NewClient(FALSE), LongSession(TRUE),
                LongSession(FALSE)}]

\* The POST of the page reaches the server.
Arrive(r) ==
  /\ client.outbox # <<>>
  /\ Receive(r, [ClientEnv EXCEPT !.requests = {client.outbox[1]}])

\* The handler of slot r is resumed after an await.
HandlerReturns(r) ==
  \/ RequestJsonReturns(r, ClientEnv)
  \/ GetUserReturns(r, ClientEnv)
  \/ InsertConversationReturns(r, ClientEnv)
  \/ InsertUserMessageReturns(r, ClientEnv)
  \/ FetchReturns(r, ClientEnv)
  \/ ResponseJsonReturns(r)
  \/ InsertAssistantMessageReturns(r, ClientEnv)
  \/ InsertMetricsReturns(r, ClientEnv)

InitClient == InitWith(ClientEnv)

NextClient ==
  \/ \E text \in {" ", " hi "} : TypeInput(text)
  \/ HandleSend
  \/ GetSessionReturns
  \/ FetchRejects
  \/ \E token \in {NULL, "tok-u1"} : SessionChanges(token)
  \/ \E r \in ClientEnv.slots :
       \/ Arrive(r)
       \/ HandlerReturns(r)
       \/ FetchResolves(r)
  \/ \E d \in ClientEnv.ticks : Tick(d)

SpecClient == InitClient /\ [][NextClient]_vars

\* SpecClient, with getSession, fetch and every call of the handler
\* returning or throwing.
SpecClientReturning ==
  /\ SpecClient
  /\ WF_vars(GetSessionReturns)
  /\ WF_vars(FetchRejects \/ \E r \in ClientEnv.slots : Arrive(r))
  /\ \A r \in ClientEnv.slots :
       WF_vars(HandlerReturns(r)) /\ WF_vars(FetchResolves(r))


\* Spec, with every call to the identity provider, the store and the LLM
\* provider returning: a pending await of a slot is resumed.
Returns(r) ==
  \/ RequestJsonReturns(r, PipelineEnv)
  \/ GetUserReturns(r, PipelineEnv)
  \/ InsertConversationReturns(r, PipelineEnv)
  \/ InsertUserMessageReturns(r, PipelineEnv)
  \/ FetchReturns(r, PipelineEnv)
  \/ ResponseJsonReturns(r)
  \/ InsertAssistantMessageReturns(r, PipelineEnv)
  \/ InsertMetricsReturns(r, PipelineEnv)

SpecReturning == Spec /\ \A r \in PipelineEnv.slots : WF_vars(Returns(r))


\* ------------------------------------------------------------------------
\* Properties
\* ------------------------------------------------------------------------

\* Slot r has evaluated isRateLimited for its request.
Checked(r) == local[r].clientKey # NULL

\* The step in which slot r evaluates isRateLimited.
ChecksAdmission(r) == local[r].clientKey = NULL /\ local'[r].clientKey # NULL

\* C1: of the requests of one key that fall in one window, isRateLimited
\* admits the first RATE_LIMIT_MAX_REQUESTS and rejects every later one, and
\* the handler answers a request with 429 exactly when isRateLimited
\* rejected it.
C1_FirstRAdmitted ==
  /\ \A k \in DOMAIN observed :
       observed[k].admitted = Min(observed[k].calls, RATE_LIMIT_MAX_REQUESTS)
  /\ \A r \in Slots :
       /\ (Checked(r) /\ local[r].limited) =>
            pc[r] = "done" /\ response[r].status = 429
       /\ response[r].status = 429 => Checked(r) /\ local[r].limited

\* A request is answered 429 as the 21st of its window.
C1_Witness ==
  \E r \in Slots :
    /\ response[r].status = 429
    /\ observed[local[r].clientKey].calls = RATE_LIMIT_MAX_REQUESTS + 1

\* C2: the window of a key stays where its first request opened it, whatever
\* requests follow inside it; a request that arrives more than
\* RATE_LIMIT_WINDOW_MS after the window start, and no other, is admitted
\* into a fresh window (count 1, windowStart the time of the request).
C2_WindowReset ==
  [][\A r \in Slots : ChecksAdmission(r) =>
       LET k == local'[r].clientKey
       IN  /\ rateLimitStore'[k].windowStart = observed'[k].opened
           /\ k \in DOMAIN rateLimitStore =>
                IF now - rateLimitStore[k].windowStart > RATE_LIMIT_WINDOW_MS
                THEN /\ ~local'[r].limited
                     /\ rateLimitStore'[k] = [count |-> 1, windowStart |-> now]
                ELSE /\ rateLimitStore'[k].windowStart = rateLimitStore[k].windowStart
                     /\ rateLimitStore'[k].count = rateLimitStore[k].count + 1]_vars

\* After 21 requests in the window opened at 0, the last of them rejected,
\* the 22nd arrives at W + 1 and is admitted into a fresh window.
C2_Witness ==
  \E r \in Slots :
    /\ Checked(r) /\ ~local[r].limited
    /\ started = RATE_LIMIT_MAX_REQUESTS + 2
    /\ rateLimitStore[local[r].clientKey] =
         [count |-> 1, windowStart |-> RATE_LIMIT_WINDOW_MS + 1]

\* C3: however concurrent requests of one key interleave, every call of
\* isRateLimited in a window is counted (n calls leave count = n) and at most
\* RATE_LIMIT_MAX_REQUESTS of them are admitted.
C3_NoUndercount ==
  /\ DOMAIN rateLimitStore = DOMAIN observed
  /\ \A k \in DOMAIN rateLimitStore :
       /\ rateLimitStore[k].count = observed[k].calls
       /\ observed[k].admitted <= RATE_LIMIT_MAX_REQUESTS

\* Two requests of one key are in flight, one admitted and waiting for the
\* provider, the other the 21st of the window and rejected.
C3_Witness ==
  \E r1, r2 \in Slots :
    /\ pc[r1] = "fetch" /\ pc[r2] = "done"
    /\ local[r1].clientKey = local[r2].clientKey
    /\ response[r2].status = 429
    /\ rateLimitStore[local[r2].clientKey].count = RATE_LIMIT_MAX_REQUESTS + 1


\* The request of slot r has been answered.
Done(r) == pc[r] = "done"

\* Slot r handles a request with a submitted history of more than n messages.
HistoryOver(r, n) ==
  request[r].json = "object" /\ request[r].messages.kind = "array"
    /\ Len(request[r].messages.items) > n

\* No row has been written since the initial state.
NoStoreWrite ==
  conversations = <<KnownConversation>> /\ messages = <<>> /\ model_invocations = <<>>

\* The calls slot r has issued so far are among names.
CallsWithin(r, names) == \A i \in 1..Len(local[r].calls) : local[r].calls[i] \in names

Called(r, name) == \E i \in 1..Len(local[r].calls) : local[r].calls[i] = name

\* C4 as stated: every guest request with more than MAX_GUEST_MESSAGES
\* messages is answered 403, without a store write or a provider call.
C4_GuestOverCapIs403 ==
  \A r \in Slots :
    (Done(r) /\ env = Configured /\ HistoryOver(r, MAX_GUEST_MESSAGES)
       /\ local[r].userId = NULL) =>
      /\ response[r].status = 403
      /\ NoStoreWrite
      /\ CallsWithin(r, {"get_user"})

\* C4 amended: a guest request with more than MAX_GUEST_MESSAGES messages is
\* answered 403 when isRateLimited admits it and 429 when it does not (500
\* when the provider configuration is missing); in each case no row is
\* written, no insert is issued and the provider is not called.
C4_GuestOverCapRejected ==
  \A r \in Slots :
    (Done(r) /\ HistoryOver(r, MAX_GUEST_MESSAGES) /\ local[r].userId = NULL) =>
      /\ response[r].status =
           IF env # Configured THEN 500
           ELSE IF local[r].limited THEN 429 ELSE 403
      /\ NoStoreWrite
      /\ CallsWithin(r, {"get_user"})

\* A guest request with 13 messages has been answered 403.
C4_Witness ==
  \E r \in Slots :
    /\ Done(r) /\ response[r].status = 403
    /\ Len(request[r].messages.items) = MAX_GUEST_MESSAGES + 1
    /\ local[r].userId = NULL /\ ~local[r].limited

\* The last Min(n, MAX_AUTH_MESSAGES) of the n submitted messages, in their
\* order, after the system instruction.
ExpectedPayload(msgs) ==
  LET n == Len(msgs)
      m == Min(n, MAX_AUTH_MESSAGES)
  IN  [i \in 1..(m + 1) |-> IF i = 1 THEN SystemInstruction ELSE msgs[n - m + i - 1]]

\* C5: an authenticated request is never answered 403, whatever the length
\* of its history, and once the provider is called the payload is the system
\* instruction followed by the last Min(n, MAX_AUTH_MESSAGES) messages.
C5_AuthTruncated ==
  \A r \in Slots :
    (Checked(r) /\ local[r].userId # NULL) =>
      /\ response[r].status # 403
      /\ Called(r, "fetch") =>
           local[r].basetenMessages = ExpectedPayload(request[r].messages.items)
      /\ (~local[r].limited /\ Done(r)) => response[r].status \in {200, 500, 502}

\* An authenticated request with 41 messages has reached the provider with a
\* payload of the system instruction and 40 messages.
C5_Witness ==
  \E r \in Slots :
    /\ local[r].userId # NULL
    /\ Len(request[r].messages.items) = MAX_AUTH_MESSAGES + 1
    /\ Called(r, "fetch")
    /\ Len(local[r].basetenMessages) = MAX_AUTH_MESSAGES + 1
    /\ local[r].basetenMessages[2] = request[r].messages.items[2]

\* C6: every conversation row the handler creates has exactly one of user_id
\* and guest_id set: user_id when the identity was resolved, else guest_id.
C6_ExactlyOneOwner ==
  \A i \in 2..Len(conversations) :
    (conversations[i].user_id # NULL) # (conversations[i].guest_id # NULL)

\* The provider answered 2xx with a body that parses and a non-empty content.
ProviderSucceeded(r) ==
  LET reply == local[r].basetenResponse
  IN  reply.ok /\ reply.parseable /\ reply.hasContent /\ reply.content # <<>>

\* C7 as stated: one model_invocations row for a successful provider call
\* whatever the store answers, none on a failure path.
C7_OneRowPerSuccess ==
  \A r \in Slots :
    Done(r) => Len(model_invocations) = IF ProviderSucceeded(r) THEN 1 ELSE 0

\* C7 amended: a request writes at most one model_invocations row: one when
\* the provider call succeeded and the store accepted the metrics insert,
\* none when the store rejected it and none on any failure path.
C7_OneRowWhenAccepted ==
  /\ Len(model_invocations) <= 1
  /\ \A r \in Slots :
       /\ Done(r) =>
            Len(model_invocations) =
              IF ProviderSucceeded(r) /\ ~local[r].metricsError THEN 1 ELSE 0
       /\ (Done(r) /\ response[r].status # 200) => model_invocations = <<>>
       /\ (pc[r] # "idle" /\ ~Done(r)) => model_invocations = <<>>

\* A successful provider call has left its one row.
C7_Witness ==
  \E r \in Slots :
    /\ Done(r) /\ response[r].status = 200
    /\ Len(model_invocations) = 1
    /\ local[r].insertUserError /\ local[r].insertAssistantError

\* C8: once the provider has answered 2xx with a non-empty content, the
\* request ends with 200 and that content, whichever of the three inserts the
\* store rejects.
C8_BestEffortWrites ==
  \A r \in Slots :
    /\ (Done(r) /\ ProviderSucceeded(r)) =>
         /\ response[r].status = 200
         /\ response[r].error = NULL
         /\ Len(response[r].message) = 1
         /\ response[r].message[1].role = "assistant"
         /\ response[r].message[1].content = local[r].basetenResponse.content
    /\ pc[r] \in {"insert_assistant", "insert_metrics"} =>
         ProviderSucceeded(r) /\ response[r] = NoResponse

\* The store rejected all three inserts and the caller has the content.
C8_Witness ==
  \E r \in Slots :
    /\ Done(r) /\ response[r].status = 200
    /\ local[r].lastUserMessage # <<>>
    /\ local[r].insertUserError /\ local[r].insertAssistantError
    /\ local[r].metricsError
    /\ ForeignKeyHolds(local[r].resolvedConversationId)

\* The recorded total the claim describes: the provider's total when given,
\* else input + output when both are present, else absent.
ExpectedTotal(usage) ==
  IF usage.total_tokens # None THEN usage.total_tokens
  ELSE IF inputTokensOf(usage) # None /\ outputTokensOf(usage) # None
  THEN Some(inputTokensOf(usage)[1] + outputTokensOf(usage)[1])
  ELSE None

\* C9: the total_tokens recorded for a provider usage object is the
\* provider's total when given, else input + output when both parts are
\* present (a part may be 0), else null.
C9_TotalTokens ==
  /\ \A r \in Slots :
       pc[r] \in {"insert_assistant", "insert_metrics", "done"} =>
         local[r].totalTokens = ExpectedTotal(local[r].basetenResponse.usage)
  /\ \A i \in 1..Len(model_invocations) :
       \A r \in Slots : Done(r) =>
         model_invocations[i].total_tokens =
           ExpectedTotal(local[r].basetenResponse.usage)

\* C10: when the provider answers with a non-2xx status the caller gets 502,
\* no assistant message and no model_invocations row is written, and the
\* insert of the user message was issued before the provider call, its row
\* being there when the store accepted it.
C10_ProviderFailure ==
  \A r \in Slots :
    (Done(r) /\ local[r].basetenResponse # NoReply /\ ~local[r].basetenResponse.ok) =>
      /\ response[r].status = 502
      /\ Called(r, "fetch")
      /\ model_invocations = <<>>
      /\ \A i \in 1..Len(messages) : messages[i].role # "assistant"
      /\ ~Called(r, "insert_assistant") /\ ~Called(r, "insert_metrics")
      /\ FindLast(request[r].messages.items, "user") # 0 =>
           /\ \E i, j \in 1..Len(local[r].calls) :
                i < j /\ local[r].calls[i] = "insert_user" /\ local[r].calls[j] = "fetch"
           /\ messages =
                IF local[r].insertUserError THEN <<>>
                ELSE <<[conversation_id |-> local[r].resolvedConversationId,
                        role |-> "user",
                        content |-> request[r].messages.items[
                          FindLast(request[r].messages.items, "user")].content]>>

\* The provider answered 503 after the user message was stored.
C10_Witness ==
  \E r \in Slots :
    /\ Done(r) /\ response[r].status = 502
    /\ local[r].basetenResponse.status = 503
    /\ Len(messages) = 1 /\ messages[1].role = "user"

\* The request of slot r supplied a conversation id the handler takes as known.
SuppliedConversation(r) == Truthy(request[r].conversationId)

\* C11: a 200 response carries a conversation id only when this request
\* created the conversation; a conversation id the request supplied is not
\* sent back.
C11_KnownIdNotResent ==
  \A r \in Slots :
    (Done(r) /\ response[r].status = 200) =>
      /\ SuppliedConversation(r) => response[r].conversationId = NULL
      /\ ~SuppliedConversation(r) =>
           response[r].conversationId = local[r].resolvedConversationId

\* The conversation insert of slot r was issued and did not yield a row id.
CreateConversationFailed(r) ==
  /\ Called(r, "insert_conversation")
  /\ pc[r] # "insert_conversation"
  /\ local[r].resolvedConversationId = NULL

\* C12: when no conversation id is supplied and the conversation insert
\* answers with an error or without a row, the request ends at once with 500
\* "Failed to create conversation.": the provider is not called, no later
\* insert is issued and no message or model_invocations row is written.
C12_CreateFailureAborts ==
  \A r \in Slots :
    /\ CreateConversationFailed(r) =>
         /\ Done(r)
         /\ response[r] = ErrorResponse(500, "Failed to create conversation.")
         /\ ~SuppliedConversation(r)
         /\ CallsWithin(r, {"get_user", "insert_conversation"})
         /\ messages = <<>> /\ model_invocations = <<>>
         /\ conversations = <<KnownConversation>>
    /\ (Called(r, "insert_conversation") /\ Called(r, "fetch")) =>
         /\ local[r].resolvedConversationId # NULL
         /\ ForeignKeyHolds(local[r].resolvedConversationId)

\* The conversation insert of an authenticated first turn failed.
C12_Witness ==
  \E r \in Slots :
    /\ CreateConversationFailed(r) /\ Done(r)
    /\ response[r].status = 500
    /\ local[r].userId # NULL
    /\ request[r].conversationId = NULL

\* Slot r handles a request with a bearer token that did not resolve to a
\* user: the token is blank, or auth.getUser answered an error or no user.
TokenRefused(r) ==
  request[r].authorization.scheme = "Bearer " /\ Checked(r) /\ local[r].userId = NULL

\* The request of slot r without its Authorization header.
Anonymous(r) == [request[r] EXCEPT !.authorization = NoAuth]

\* The rate limiter, the store and the provider answered the requests of
\* slots r1 and r2 alike.
SameAnswers(r1, r2) ==
  /\ local[r1].limited = local[r2].limited
  /\ CreateConversationFailed(r1) = CreateConversationFailed(r2)
  /\ local[r1].insertUserError = local[r2].insertUserError
  /\ local[r1].basetenResponse = local[r2].basetenResponse
  /\ local[r1].insertAssistantError = local[r2].insertAssistantError
  /\ local[r1].metricsError = local[r2].metricsError

\* The response of slot r, but for the id of a conversation it created.
ResponseModuloNewId(r) ==
  IF SuppliedConversation(r) THEN response[r]
  ELSE [response[r] EXCEPT !.conversationId =
          IF @ = NULL THEN "none" ELSE "created"]

\* C13: a request whose bearer token does not verify is handled as the same
\* request without a token: both are counted under the same rate-limit key,
\* get the guest cap and, given the same answers of the rate limiter, the
\* store and the provider, the same response and the same owner of the
\* conversation they create; a refused token never ends the request.
C13_InvalidTokenAsAnonymous ==
  /\ \A r \in Slots :
       /\ (Called(r, "get_user") /\ pc[r] # "get_user") => Checked(r)
       /\ (TokenRefused(r) /\ Done(r)) => response[r].status \in {200, 403, 429, 500, 502}
       /\ (TokenRefused(r) /\ Done(r) /\ response[r].status = 500) =>
            \/ CreateConversationFailed(r)
            \/ Called(r, "fetch")
  /\ \A r1, r2 \in Slots :
       (TokenRefused(r1) /\ request[r2] = Anonymous(r1) /\ Checked(r2)) =>
         /\ local[r1].clientKey = local[r2].clientKey
         /\ local[r1].userId = local[r2].userId
         /\ local[r1].limited = local[r2].limited =>
              local[r1].maxMessages = local[r2].maxMessages
         /\ \A i \in 2..Len(conversations) :
              /\ conversations[i].user_id = NULL
              /\ conversations[i].guest_id = request[r2].guestId
              /\ conversations[i].title = TitleOf(request[r2].messages.items)
         /\ (Done(r1) /\ Done(r2) /\ SameAnswers(r1, r2)) =>
              ResponseModuloNewId(r1) = ResponseModuloNewId(r2)

\* A first turn with a refused token and the same first turn without a
\* token have both been answered 200, each owning a new conversation.
C13_Witness ==
  \E r1, r2 \in Slots :
    /\ TokenRefused(r1) /\ Called(r1, "get_user")
    /\ request[r2] = Anonymous(r1) /\ ~Called(r2, "get_user")
    /\ Done(r1) /\ Done(r2) /\ SameAnswers(r1, r2)
    /\ response[r1].status = 200 /\ response[r2].status = 200
    /\ Len(conversations) = 3
    /\ response[r1].conversationId # response[r2].conversationId

\* The body of the request of slot r is not JSON, or it carries no messages
\* field, or one that is not an array or is an empty array.
Malformed(r) ==
  \/ request[r].json = "invalid"
  \/ request[r].json \in {"object", "null"} /\
       (request[r].messages.kind # "array" \/ Len(request[r].messages.items) = 0)

\* Slot r has left the rate-limit table as it was and issued no call.
Untouched(r) ==
  /\ ~Checked(r)
  /\ rateLimitStore \in PipelineEnv.stores
  /\ observed = ObservedOf(rateLimitStore)
  /\ local[r].calls = <<>>
  /\ NoStoreWrite

\* C14: a request whose body is not valid JSON, or whose messages field is
\* missing, not an array or an empty array, is answered 400; the rate-limit
\* table is not touched and no identity lookup, store write or provider call
\* is made.
C14_MalformedIs400 ==
  \A r \in Slots :
    (Malformed(r) /\ env = Configured /\ pc[r] \notin {"idle", "request_json"}) =>
      /\ Done(r)
      /\ response[r].status = 400
      /\ response[r].error =
           IF request[r].json = "invalid" THEN "Invalid JSON body."
           ELSE "'messages' array is required."
      /\ Untouched(r)

\* C15: while the provider API key or the model identifier is absent, every
\* request is answered 500 "Baseten configuration is missing." as it
\* arrives, whatever its body, its headers and the state of the rate-limit
\* table; the table is not touched and no identity lookup, store write or
\* provider call is made.
C15_MissingConfigIs500 ==
  \A r \in Slots :
    ((env.BASETEN_API_KEY \in {NULL, ""} \/ env.BASETEN_MODEL_SLUG \in {NULL, ""})
       /\ pc[r] # "idle") =>
      /\ Done(r)
      /\ response[r] = ErrorResponse(500, "Baseten configuration is missing.")
      /\ Untouched(r)

\* With the model identifier empty, a well-formed request of a client whose
\* window is used up has been answered 500.
C15_Witness ==
  \E r \in Slots :
    /\ env.BASETEN_API_KEY = "key" /\ env.BASETEN_MODEL_SLUG = ""
    /\ Done(r) /\ response[r].status = 500
    /\ rateLimitStore = SpentStore
    /\ request[r].guestId = "g1" /\ request[r].authorization = Bearer("tok-u1")
    /\ Len(request[r].messages.items) = MAX_AUTH_MESSAGES + 1

\* The provider has answered the fetch of slot r, with any status.
ProviderAnswered(r) ==
  Called(r, "fetch") /\ pc[r] # "fetch" /\ local[r].basetenResponse # NoReply

\* C16: a provider answer with a non-2xx status ends the request with 502; a
\* 2xx answer whose body does not parse, or whose choices[0].message.content
\* is missing or empty, ends it with 500; on both paths neither insert of
\* the assistant message or of the metrics is issued, and no assistant
\* message row and no model_invocations row is written.
C16_ProviderFailureSignals ==
  \A r \in Slots :
    (ProviderAnswered(r) /\ ~ProviderSucceeded(r)) =>
      /\ pc[r] \in {"response_json", "done"}
      /\ Done(r) =>
           response[r].status = IF local[r].basetenResponse.ok THEN 500 ELSE 502
      /\ Done(r) => response[r].message = <<>>
      /\ ~Called(r, "insert_assistant") /\ ~Called(r, "insert_metrics")
      /\ \A i \in 1..Len(messages) : messages[i].role # "assistant"
      /\ model_invocations = <<>>

\* The provider answered 200 with an empty content after the user message
\* was stored, and the request has ended with 500.
C16_Witness ==
  \E r \in Slots :
    /\ Done(r) /\ response[r].status = 500
    /\ local[r].basetenResponse.ok /\ local[r].basetenResponse.parseable
    /\ local[r].basetenResponse.hasContent
    /\ local[r].basetenResponse.content = <<>>
    /\ Len(messages) = 1

\* C17: the conversation id a request resolves, and issues its message and
\* metrics inserts against, is the id of a row of conversations, whether the
\* request created the conversation or the caller supplied the id.
C17_ResolvedIdIsDurable ==
  \A r \in Slots :
    local[r].resolvedConversationId # NULL =>
      ForeignKeyHolds(local[r].resolvedConversationId)

\* Slot r handles a request without a conversation id whose conversation
\* insert the store has accepted.
CreatedConversation(r) ==
  ~SuppliedConversation(r) /\ pc[r] # "idle" /\ local[r].resolvedConversationId # NULL

\* The first min(n, TITLE_MAX) characters of a content.
Prefix(content) == [j \in 1..Min(Len(content), TITLE_MAX) |-> content[j]]

\* What C18 says of a first turn, given the title it is to carry.
FirstTurnCreates(r, title) ==
  /\ CreatedConversation(r) =>
       /\ Len(conversations) = 2
       /\ conversations[2].id = local[r].resolvedConversationId
       /\ conversations[2].id # KnownConversation.id
       /\ IF local[r].userId # NULL
          THEN conversations[2].user_id = local[r].userId
          ELSE conversations[2].guest_id = request[r].guestId
       /\ conversations[2].title = title
  /\ (~SuppliedConversation(r) /\ Done(r) /\ response[r].status = 200) =>
       /\ CreatedConversation(r)
       /\ response[r].conversationId = conversations[2].id
       /\ Len(response[r].message) = 1
       /\ response[r].message[1].role = "assistant"
       /\ response[r].message[1].content = local[r].basetenResponse.content
  /\ (pc[r] # "idle" /\ ~CreatedConversation(r)) => Len(conversations) = 1

\* C18 as stated: a first turn without a conversation id creates exactly one
\* conversation, owned by the user id if present, else by the guest id, and
\* titled with the content of the first user message cut to its first
\* TITLE_MAX characters, without a title only when the history has no user
\* message; the 200 response carries the new id and one assistant message.
C18_FirstTurnTitled ==
  \A r \in Slots :
    LET msgs == request[r].messages.items
        first == FindFirst(msgs, "user")
    IN  FirstTurnCreates(r, IF first = 0 THEN None
                            ELSE Some(Prefix(msgs[first].content)))

\* C18 amended: as stated, and the conversation has no title either when the
\* content of the first user message is empty.
C18_FirstTurnTitledUnlessEmpty ==
  \A r \in Slots :
    LET msgs == request[r].messages.items
        first == FindFirst(msgs, "user")
    IN  FirstTurnCreates(r, IF first = 0 \/ msgs[first].content = <<>> THEN None
                            ELSE Some(Prefix(msgs[first].content)))

\* A first turn whose first user message is the second of three and longer
\* than TITLE_MAX has been answered 200; the title is its first TITLE_MAX
\* characters.
C18_Witness ==
  \E r \in Slots :
    /\ Done(r) /\ response[r].status = 200 /\ CreatedConversation(r)
    /\ Len(request[r].messages.items) = 3
    /\ request[r].messages.items[1].role = "system"
    /\ Len(request[r].messages.items[2].content) = TITLE_MAX + 1
    /\ conversations[2].title # None
    /\ Len(conversations[2].title[1]) = TITLE_MAX
    /\ conversations[2].title[1][1] = 2
    /\ conversations[2].guest_id = "g1"
    /\ response[r].conversationId = "conv-2"

\* The place of a handler position in the sequence ValidateInput,
\* ResolveIdentity, CheckAdmission, ResolveConversation, PersistUserTurn,
\* InvokeModel, PersistAssistantTurn, RecordMetrics, Respond.
Stage(p) ==
  CASE p = "idle" -> 0
    [] p = "request_json" -> 1
    [] p = "get_user" -> 2
    [] p = "insert_conversation" -> 4
    [] p = "insert_user" -> 5
    [] p = "fetch" -> 6
    [] p = "response_json" -> 6
    [] p = "insert_assistant" -> 7
    [] p = "insert_metrics" -> 8
    [] p = "done" -> 9

\* The stage in which a downstream call is issued.
CallStage(name) ==
  CASE name = "get_user" -> 2
    [] name = "insert_conversation" -> 4
    [] name = "insert_user" -> 5
    [] name = "fetch" -> 6
    [] name = "insert_assistant" -> 7
    [] name = "insert_metrics" -> 8

\* The calls of slot r were issued in the order of the stages, each at most
\* once, none later than the stage the handler is in, and admission was
\* checked before any call later than the identity lookup.
InStageOrder(r) ==
  LET calls == local[r].calls
  IN  /\ \A i, j \in 1..Len(calls) : i < j => CallStage(calls[i]) < CallStage(calls[j])
      /\ \A i \in 1..Len(calls) : CallStage(calls[i]) <= Stage(pc[r])
      /\ (\E i \in 1..Len(calls) : CallStage(calls[i]) > 2) =>
           Checked(r) /\ ~local[r].limited
      /\ Stage(pc[r]) \in 4..8 => Checked(r) /\ ~local[r].limited

\* A step of slot r moves forward in the sequence (from response_json, the
\* second await of InvokeModel, to a later stage), or takes the next request
\* once the response is out; the response is set in the step that ends the
\* request and in no other.
MovesForward(r) ==
  /\ pc'[r] # pc[r] =>
       \/ Stage(pc'[r]) > Stage(pc[r])
       \/ pc[r] = "fetch" /\ pc'[r] = "response_json"
       \/ pc[r] = "done" /\ pc'[r] = "idle"
  /\ (pc[r] = "fetch" /\ pc'[r] = "response_json") => local'[r].calls = local[r].calls
  /\ response'[r] # response[r] =>
       \/ pc[r] \notin {"idle", "done"} /\ pc'[r] = "done" /\ response[r] = NoResponse
       \/ pc[r] = "idle" /\ pc'[r] = "done"
       \/ pc[r] = "done" /\ pc'[r] = "idle" /\ response'[r] = NoResponse
  /\ (pc'[r] = "done" /\ pc[r] # "done") =>
       response'[r].status \in {200, 400, 403, 429, 500, 502}

\* C19: a request passes the stages ValidateInput, ResolveIdentity,
\* CheckAdmission, ResolveConversation, PersistUserTurn, InvokeModel,
\* PersistAssistantTurn, RecordMetrics and Respond in this order, never
\* going back and issuing each downstream call at most once; it is answered
\* exactly once, and when every downstream call returns, every request that
\* arrived is answered.
C19_StrictSequence ==
  /\ [](\A r \in Slots : InStageOrder(r) /\ (Done(r) <=> response[r] # NoResponse))
  /\ [][\A r \in Slots : MovesForward(r)]_vars
  /\ \A r \in PipelineEnv.slots : (pc[r] # "idle") ~> Done(r)

\* A request has passed every stage, issuing all six downstream calls, and
\* has been answered 200.
C19_Witness ==
  \E r \in Slots :
    /\ Done(r) /\ response[r].status = 200
    /\ local[r].calls = <<"get_user", "insert_conversation", "insert_user", "fetch",
                          "insert_assistant", "insert_metrics">>

\* The rows of messages with the given role.
RowsOf(role) == {i \in 1..Len(messages) : messages[i].role = role}

\* C20: the inserts of the assistant message and of the metrics are
\* attempted independently: after a successful provider reply the metrics
\* insert is issued whether or not the store took the assistant message, the
\* assistant row stays whatever the metrics insert answers, and a rejected
\* user message keeps neither the provider call nor the two later inserts
\* from being issued; each of the three rows is there exactly when the
\* store accepted its own insert.
C20_IndependentWrites ==
  \A r \in Slots :
    /\ (ProviderSucceeded(r) /\ pc[r] \in {"insert_metrics", "done"}) =>
         /\ Called(r, "insert_assistant") /\ Called(r, "insert_metrics")
         /\ (RowsOf("assistant") # {}) = ~local[r].insertAssistantError
    /\ local[r].insertUserError => Called(r, "fetch")
    /\ (Called(r, "insert_user") /\ pc[r] # "insert_user") =>
         /\ Called(r, "fetch")
         /\ (RowsOf("user") # {}) = ~local[r].insertUserError
    /\ Done(r) =>
         (model_invocations # <<>>) =
           (Called(r, "insert_metrics") /\ ~local[r].metricsError)
    /\ (Done(r) /\ ProviderSucceeded(r)) => response[r].status = 200

\* The store rejected the user message and the metrics and took the
\* assistant message in between.
C20_Witness ==
  \E r \in Slots :
    /\ Done(r) /\ response[r].status = 200
    /\ local[r].insertUserError /\ ~local[r].insertAssistantError
    /\ local[r].metricsError
    /\ Len(messages) = 1 /\ messages[1].role = "assistant"
    /\ model_invocations = <<>>

\* The kind of key the claim gives a request: by its user id, else by its
\* guest id, else by the first address of x-forwarded-for, each when it is
\* there and not empty.
KeyKind(req, userId) ==
  IF userId \notin {NULL, ""} THEN "user"
  ELSE IF req.guestId \notin {NULL, ""} THEN "guest"
  ELSE IF req.xff.present /\ req.xff.segments[1] \notin {"", " "} THEN "ip"
  ELSE "anonymous"

\* The identities a request may carry.
IdentityInputs ==
  {[req |-> q, userId |-> u] : q \in IdentityRequests, u \in {NULL, "u1"}}

\* C21: the rate-limit key of a request is user:<user id> when the user id
\* is there, whatever guest id and address the request carries, else
\* guest:<guest id>, else ip:<first address of x-forwarded-for, trimmed>,
\* else "anonymous"; the key of a request differs from the key of every
\* request of another kind.
C21_KeyPriority ==
  \A r \in Slots : Checked(r) =>
    LET req == request[r]
        kind == KeyKind(req, local[r].userId)
    IN  /\ local[r].clientKey =
             CASE kind = "user" -> "user:u1"
               [] kind = "guest" -> IF req.guestId = "g1" THEN "guest:g1" ELSE "guest:u1"
               [] kind = "ip" -> "ip:10.0.0.1"
               [] OTHER -> "anonymous"
        /\ \A i \in IdentityInputs :
             KeyKind(i.req, i.userId) # kind =>
               getClientIdentifier(i.req, i.userId, i.req.guestId) # local[r].clientKey

\* An authenticated request that carries the guest id u1 and an address is
\* keyed by its user id.
C21_Witness ==
  \E r \in Slots :
    /\ Checked(r) /\ local[r].userId = "u1"
    /\ request[r].guestId = "u1" /\ request[r].xff.present
    /\ local[r].clientKey = "user:u1"

\* The sum of f over the times of S.
RECURSIVE SumOver(_, _)
SumOver(f, S) ==
  IF S = {} THEN 0
  ELSE LET t == CHOOSE x \in S : TRUE
       IN  f[t] + SumOver(f, S \ {t})

\* The calls of a key isRateLimited admitted at a time from a to a + W.
AdmittedFrom(k, a) ==
  LET log == observed[k].log
  IN  SumOver(log, {t \in DOMAIN log : a <= t /\ t <= a + RATE_LIMIT_WINDOW_MS})

\* C22: for every key and every interval of length RATE_LIMIT_WINDOW_MS,
\* isRateLimited admits at most 2 * RATE_LIMIT_MAX_REQUESTS of the calls made
\* in the interval (an interval holds most when it starts at an admitted
\* call).
C22_BurstAtMostTwice ==
  \A k \in DOMAIN observed :
    \A a \in DOMAIN observed[k].log :
      AdmittedFrom(k, a) <= 2 * RATE_LIMIT_MAX_REQUESTS

\* Around a window boundary 39 calls of one key were admitted within one
\* window length: 19 in the second half of a window, 20 in the next window.
C22_Witness ==
  \E k \in DOMAIN observed :
    \E a \in DOMAIN observed[k].log :
      /\ a > 0
      /\ AdmittedFrom(k, a) = 2 * RATE_LIMIT_MAX_REQUESTS - 1
      /\ observed[k].admitted = RATE_LIMIT_MAX_REQUESTS

\* The user messages of the history slot r was sent that no user message
\* follows.
MostRecentUser(r) ==
  LET msgs == request[r].messages.items
  IN  {i \in 1..Len(msgs) :
         /\ msgs[i].role = "user"
         /\ \A j \in (i + 1)..Len(msgs) : msgs[j].role # "user"}

\* C23: a request writes at most one user message row: the most recent
\* user message of the whole submitted history, with role user and the
\* resolved conversation id; the insert is issued exactly when the history
\* holds a user message, and without one the provider is called all the
\* same.
C23_LastUserMessageStored ==
  \A r \in Slots :
    /\ Cardinality(RowsOf("user")) <= 1
    /\ pc[r] # "idle" =>
         \A i \in RowsOf("user") :
           \E m \in MostRecentUser(r) :
             messages[i] = [conversation_id |-> local[r].resolvedConversationId,
                            role |-> "user",
                            content |-> request[r].messages.items[m].content]
    /\ (pc[r] # "idle" /\ local[r].resolvedConversationId # NULL) =>
         IF MostRecentUser(r) = {}
         THEN ~Called(r, "insert_user") /\ Called(r, "fetch")
         ELSE /\ Called(r, "insert_user")
              /\ pc[r] # "insert_user" =>
                   /\ Called(r, "fetch")
                   /\ (RowsOf("user") = {}) = local[r].insertUserError

\* Of a history system, user, assistant the second message has been stored
\* before the provider was called.
C23_Witness ==
  \E r \in Slots :
    /\ Called(r, "fetch")
    /\ Len(request[r].messages.items) = 3
    /\ request[r].messages.items[1].role = "system"
    /\ RowsOf("user") = {1}
    /\ messages[1].content = request[r].messages.items[2].content
    /\ messages[1].content # request[r].messages.items[3].content

\* The step in which slot r is answered with the given status.
Answers(r, status) == response[r].status # status /\ response'[r].status = status

\* The count the entry of key k has after one more call at the current time.
CountAfterCall(k) ==
  IF k \in DOMAIN rateLimitStore /\
       now - rateLimitStore[k].windowStart <= RATE_LIMIT_WINDOW_MS
  THEN rateLimitStore[k].count + 1
  ELSE 1

\* C24: the rate limit is checked before the tier cap: a guest request with
\* more than MAX_GUEST_MESSAGES messages that isRateLimited rejects is
\* answered 429, not 403, and the step that answers a guest request with
\* 403 has counted the request in the rate-limit entry of its key.
C24_RateLimitBeforeCap ==
  /\ [](\A r \in Slots :
         /\ (Checked(r) /\ HistoryOver(r, MAX_GUEST_MESSAGES)
               /\ local[r].userId = NULL /\ local[r].limited) =>
              Done(r) /\ response[r].status = 429
         /\ response[r].status = 403 =>
              /\ Checked(r) /\ ~local[r].limited
              /\ local[r].clientKey \in DOMAIN rateLimitStore)
  /\ [][\A r \in Slots : Answers(r, 403) =>
          /\ ChecksAdmission(r)
          /\ rateLimitStore'[local'[r].clientKey].count =
               CountAfterCall(local'[r].clientKey)
          /\ rateLimitStore'[local'[r].clientKey].count <= RATE_LIMIT_MAX_REQUESTS]_vars

\* An over-cap guest request that came as the 21st of its window has been
\* answered 429, after an over-cap request of the window was answered 403.
C24_Witness ==
  \E r1, r2 \in Slots :
    /\ Done(r1) /\ response[r1].status = 429
    /\ HistoryOver(r1, MAX_GUEST_MESSAGES) /\ local[r1].userId = NULL
    /\ Done(r2) /\ response[r2].status = 403
    /\ local[r1].clientKey = local[r2].clientKey
    /\ rateLimitStore[local[r1].clientKey].count = RATE_LIMIT_MAX_REQUESTS + 1

\* C25: every entry of the rate-limit table has count >= 1 and a windowStart
\* not later than the current time; the table changes only when a request
\* is checked, which adds the entry of its key if there is none and removes
\* no entry, and right after the check of a request of key k at time t the
\* entry of k has t - windowStart <= RATE_LIMIT_WINDOW_MS.
C25_TableInvariant ==
  /\ [](\A k \in DOMAIN rateLimitStore :
         rateLimitStore[k].count >= 1 /\ rateLimitStore[k].windowStart <= now)
  /\ [][/\ DOMAIN rateLimitStore \subseteq DOMAIN rateLimitStore'
        /\ (\A r \in Slots : ~ChecksAdmission(r)) => rateLimitStore' = rateLimitStore
        /\ \A r \in Slots : ChecksAdmission(r) =>
             LET k == local'[r].clientKey
             IN  /\ DOMAIN rateLimitStore' = DOMAIN rateLimitStore \cup {k}
                 /\ now - rateLimitStore'[k].windowStart <= RATE_LIMIT_WINDOW_MS
                 /\ now - rateLimitStore'[k].windowStart >= 0
                 /\ k \notin DOMAIN rateLimitStore =>
                      rateLimitStore'[k] = [count |-> 1, windowStart |-> now]]_vars

\* The entry of a key was created by a request half a window after the start
\* and counts a second request a little more than half a window later.
C25_Witness ==
  \E k \in DOMAIN rateLimitStore :
    /\ rateLimitStore[k] = [count |-> 2, windowStart |-> RATE_LIMIT_WINDOW_MS \div 2]
    /\ now = RATE_LIMIT_WINDOW_MS + 1

\* C26: the check of a request changes the rate-limit entry of its own key
\* and no other entry, and a request is answered 429 only when more than
\* RATE_LIMIT_MAX_REQUESTS requests of its own key fell in the window,
\* however many requests of other keys there were.
C26_KeysIndependent ==
  /\ [](\A r \in Slots : response[r].status = 429 =>
          observed[local[r].clientKey].calls > RATE_LIMIT_MAX_REQUESTS)
  /\ [][\A r \in Slots : ChecksAdmission(r) =>
          \A k \in DOMAIN rateLimitStore \ {local'[r].clientKey} :
            /\ k \in DOMAIN rateLimitStore'
            /\ rateLimitStore'[k] = rateLimitStore[k]]_vars

\* The guest has used up its window and got 429, and a request of the
\* signed-in user, the second of its key, is admitted.
C26_Witness ==
  \E r \in Slots :
    /\ Checked(r) /\ local[r].clientKey = "user:u1" /\ ~local[r].limited
    /\ DOMAIN rateLimitStore = {"guest:g1", "user:u1"}
    /\ rateLimitStore["guest:g1"].count = RATE_LIMIT_MAX_REQUESTS + 1
    /\ rateLimitStore["user:u1"].count = 1
    /\ rateLimitStore["guest:g1"].windowStart = rateLimitStore["user:u1"].windowStart

\* The rows of a message table with the given role.
RowsIn(table, role) == {i \in 1..Len(table) : table[i].role = role}

\* C27: a request creates at most one conversation row, and none when it
\* supplied a conversation id (no conversation insert is issued then); every
\* message row and model_invocations row it writes carries its resolved
\* conversation id; the user row is written before the assistant row and
\* the assistant row before the metrics row.
C27_OneConversationPerRequest ==
  /\ [](\A r \in Slots : pc[r] # "idle" =>
          /\ Len(conversations) <= 2
          /\ Len(conversations) = 2 =>
               /\ ~SuppliedConversation(r)
               /\ conversations[2].id = local[r].resolvedConversationId
          /\ SuppliedConversation(r) =>
               /\ ~Called(r, "insert_conversation")
               /\ local[r].resolvedConversationId \in {NULL, request[r].conversationId}
          /\ \A i \in 1..Len(messages) :
               messages[i].conversation_id = local[r].resolvedConversationId
          /\ \A i \in 1..Len(model_invocations) :
               model_invocations[i].conversation_id = local[r].resolvedConversationId
          /\ \A i \in RowsIn(messages, "user"), j \in RowsIn(messages, "assistant") :
               i < j
          /\ Cardinality(RowsIn(messages, "assistant")) <= 1
          /\ Len(model_invocations) <= 1)
  /\ [][/\ Len(messages') >= Len(messages)
        /\ SubSeq(messages', 1, Len(messages)) = messages
        /\ RowsIn(messages', "user") # RowsIn(messages, "user") =>
             RowsIn(messages, "assistant") = {} /\ model_invocations = <<>>
        /\ RowsIn(messages', "assistant") # RowsIn(messages, "assistant") =>
             model_invocations = <<>> /\ model_invocations' = <<>>
        /\ model_invocations' # model_invocations =>
             \A r \in Slots : pc[r] = "insert_metrics" => Called(r, "insert_assistant")]_vars

\* A request that supplied the known conversation has stored the user row,
\* the assistant row and the metrics row against it, creating no row of
\* conversations.
C27_Witness ==
  \E r \in Slots :
    /\ Done(r) /\ response[r].status = 200
    /\ request[r].conversationId = "c0"
    /\ Len(conversations) = 1
    /\ Len(messages) = 2
    /\ messages[1].role = "user" /\ messages[2].role = "assistant"
    /\ messages[1].conversation_id = "c0" /\ messages[2].conversation_id = "c0"
    /\ Len(model_invocations) = 1
    /\ model_invocations[1].conversation_id = "c0"

\* The page has a POST on its way to the server or being handled in slot r.
InFlight(r) == client.pc = "fetch" /\ client.outbox = <<>> /\ pc[r] # "idle"

\* C28: the history of the page only grows, by appending, a user message
\* staying in it when its send fails; every POST carries the whole history
\* of the page; and once a send without a session was answered 403, every
\* later send of the page made without a session is answered 403 or 429 and
\* issues no provider call.
C28_CappedGuestStaysRefused ==
  /\ [](/\ client.outbox # <<>> =>
            client.outbox[1].messages = Array(Outgoing(client.messages))
        /\ \A r \in ClientEnv.slots :
             /\ InFlight(r) =>
                  request[r].messages = Array(Outgoing(client.messages))
             /\ (InFlight(r) /\ client.capped /\ request[r].authorization = NoAuth) =>
                  /\ ~Called(r, "fetch")
                  /\ HistoryOver(r, MAX_GUEST_MESSAGES)
                  /\ Done(r) => response[r].status \in {403, 429})
  /\ [][/\ Len(client'.messages) >= Len(client.messages)
        /\ SubSeq(client'.messages, 1, Len(client.messages)) = client.messages]_vars

\* After a 403 for the guest cap, a later send of the page without a session
\* has been answered 429, the page has answered a send out of the provider
\* before, and its history kept every user message.
C28_Witness ==
  \E r \in ClientEnv.slots :
    /\ InFlight(r) /\ Done(r)
    /\ client.capped /\ request[r].authorization = NoAuth
    /\ response[r].status = 429
    /\ Len(model_invocations) > 0
    /\ Len(client.messages) > MAX_GUEST_MESSAGES

\* A step in which handleSend lets a send begin.
SendBegins == client.pc # "get_session" /\ client'.pc = "get_session"

\* C29: a send begins only from a non-blank input while the page is not
\* sending, and it sets isSending; the POST is issued while isSending is
\* true, at most one for each send begun; the page is sending exactly while
\* a send is under way, so isSending is false again once it ended with an
\* OK or a non-OK response or a rejected fetch; and a page that is sending
\* eventually is not.
C29_SendingIsReset ==
  /\ [](/\ client.isSending <=> client.pc # "idle"
        /\ client.outbox # <<>> => client.isSending /\ client.pc = "fetch"
        /\ started <= client.sends
        /\ \A r \in ClientEnv.slots : pc[r] # "idle" => InFlight(r))
  /\ [][/\ (SendBegins \/ client'.sends # client.sends) =>
             /\ Truthy(Trim(client.input)) /\ ~client.isSending
             /\ client'.isSending /\ client'.sends = client.sends + 1
             /\ SendBegins
        /\ started' # started =>
             started' = started + 1 /\ client.outbox # <<>> /\ client'.outbox = <<>>]_vars
  /\ client.isSending ~> ~client.isSending

\* The page is idle again after three sends, one answered 200, one refused
\* by the server, and the last one ended by an error shown to the user.
C29_Witness ==
  /\ client.pc = "idle" /\ ~client.isSending
  /\ client.sends = 3 /\ started < client.sends
  /\ Len(model_invocations) > 0
  /\ client.capped
  /\ IF client.errorsInline
     THEN client.messages[Len(client.messages)].content = Chars("error")
     ELSE client.errorBanner = "error"

====
